---- MODULE Spec2Model ----
(***************************************************************************)
(* A model of the oat-scheme interpreter: the value model (value.rs), the  *)
(* environment (environment.rs), the evaluator (eval.rs), the primitives   *)
(* the evaluator is exercised with (builtin.rs) and the read-eval loop     *)
(* (bin/oats.rs).  eval is modelled as the function it is: from a value    *)
(* and an environment to a result and the environment it leaves behind.    *)
(* Numbers are integers (exact in f64 over the small range used).          *)
(***************************************************************************)
EXTENDS Integers, Sequences, FiniteSets, TLC

VARIABLES
    scn,        \* which input file / session is being run
    frames,     \* Environment.frames of the persistent environment
    steps,      \* number of top-level forms evaluated so far
    last,       \* what the last call of run did (form, result, frames before)
    defFrames   \* history: the frames at the start of the form that defined a name

vars == <<scn, frames, steps, last, defFrames>>

----------------------------------------------------------------------------
(* Bounds of the model *)

\* number of top-level forms evaluated in one session, or held by one input
MaxForms == 4
\* largest number literal passed to the counting procedures
MaxNum == 3
\* longest list of the data drawn for eq? and for the list iterator, and
\* most pieces of a string or characters of a symbol in the texts read
MaxLen == 2
\* most operands given to and / or and in an application
MaxOps == 3
\* steps of the evaluator allowed in one top-level call of eval
MaxFuel == 200

----------------------------------------------------------------------------
(* value.rs: the value model *)

Void == [t |-> "Void"]
symbol(s) == [t |-> "Symbol", s |-> s]
number(n) == [t |-> "Number", n |-> n]
string(s) == [t |-> "String", s |-> s]
character(c) == [t |-> "Character", c |-> c]
boolean(b) == [t |-> "Boolean", b |-> b]
EmptyList == [t |-> "EmptyList"]
pair(l, r) == [t |-> "Pair", car |-> l, cdr |-> r]
Primitive(f) == [t |-> "Procedure", p |-> [kind |-> "Primitive", f |-> f]]
Compound(parameters, body, captures) ==
    [t |-> "Procedure",
     p |-> [kind |-> "Compound", parameters |-> parameters, body |-> body,
            captures |-> captures]]

to_bool(v) == ~(v.t = "Boolean" /\ v.b = FALSE)

(* error.rs: results and errors *)
Ok(v) == [ok |-> TRUE, v |-> v]
Err(e) == [ok |-> FALSE, e |-> e]
UndefinedVariable(name) == [k |-> "UndefinedVariable", name |-> name]
EmptyApplication == [k |-> "EmptyApplication"]
EmptyProcedure == [k |-> "EmptyProcedure"]
ExpectedProcedure(v) == [k |-> "ExpectedProcedure", v |-> v]
ExpectedValue(v) == [k |-> "ExpectedValue", v |-> v]
IncorrectArity(expected, received) ==
    [k |-> "IncorrectArity", expected |-> expected, received |-> received]
TypeMismatch(expected, v) == [k |-> "TypeMismatch", expected |-> expected, v |-> v]
ExpectedList(v) == [k |-> "ExpectedList", v |-> v]
\* either error of the reader: UnexpectedEndOfInput or ParseError
ParseError == [k |-> "ParseError"]
\* not an error of the program: the model's bound on the length of a run
OutOfFuel == [k |-> "OutOfFuel"]

(* impl Iterator for &Value: one call of next.  An improper tail yields one
   error item and leaves the iterator on the empty list; the error carries
   the iterator's value after that reset. *)
next(v) ==
    CASE v.t = "EmptyList" -> [some |-> FALSE]
      [] v.t = "Pair" -> [some |-> TRUE, item |-> Ok(v.car), rest |-> v.cdr]
      [] OTHER -> [some |-> TRUE, item |-> Err(ExpectedList(EmptyList)),
                   rest |-> EmptyList]

\* Iterator::count
RECURSIVE count(_)
count(v) == LET nx == next(v) IN IF nx.some THEN 1 + count(nx.rest) ELSE 0

(* impl FromIterator for Value: reverse, then fold into pairs from EmptyList *)
RECURSIVE fold_pairs(_, _)
fold_pairs(elems, acc) ==
    IF elems = <<>> THEN acc
    ELSE fold_pairs(Tail(elems), pair(Head(elems), acc))

\* variant: the elements are folded in the order they were collected
reverse_not(s) == s

\* Vec::reverse
reverse(s) == [i \in 1..Len(s) |-> s[Len(s) + 1 - i]]

from_iter(elems) == fold_pairs(reverse(elems), EmptyList)

----------------------------------------------------------------------------
(* lib.rs: unscheme!, the destructuring arms *)

\* ($value => any) and ($value => $variant): the payload or a type mismatch
un(v, variant) ==
    CASE variant = "any" -> Ok(v)
      [] variant = "Pair" ->
            IF v.t = "Pair" THEN Ok(<<v.car, v.cdr>>) ELSE Err(TypeMismatch("pair", v))
      [] variant = "Symbol" ->
            IF v.t = "Symbol" THEN Ok(v.s) ELSE Err(TypeMismatch("symbol", v))
      [] variant = "Number" ->
            IF v.t = "Number" THEN Ok(v.n) ELSE Err(TypeMismatch("number", v))
      [] variant = "Boolean" ->
            IF v.t = "Boolean" THEN Ok(v.b) ELSE Err(TypeMismatch("boolean", v))
      [] variant = "String" ->
            IF v.t = "String" THEN Ok(v.s) ELSE Err(TypeMismatch("string", v))

\* ($value => [$variant]): a one-element list
un1(v, variant) ==
    IF v.t # "Pair" THEN Err(TypeMismatch("pair", v))
    ELSE IF v.cdr.t = "EmptyList" THEN un(v.car, variant)
    ELSE Err(ExpectedList(v.cdr))

\* ($value => [$variant, rest]): the head destructured, the tail as it is
un_rest(v, variant) ==
    IF v.t # "Pair" THEN Err(ExpectedList(v))
    ELSE LET h == un(v.car, variant)
         IN IF h.ok THEN Ok(<<h.v, v.cdr>>) ELSE h

\* ($value => [$v1, $v2]): a two-element list
un2(v, v1, v2) ==
    IF v.t # "Pair" THEN Err(ExpectedList(v))
    ELSE LET h == un(v.car, v1)
         IN IF ~h.ok THEN h
            ELSE LET r == un1(v.cdr, v2)
                 IN IF r.ok THEN Ok(<<h.v, r.v>>) ELSE r

\* ($value => [$v1, $v2, $v3]): a three-element list
un3(v, v1, v2, v3) ==
    IF v.t # "Pair" THEN Err(ExpectedList(v))
    ELSE LET h == un(v.car, v1)
         IN IF ~h.ok THEN h
            ELSE LET r == un2(v.cdr, v2, v3)
                 IN IF r.ok THEN Ok(<<h.v, r.v[1], r.v[2]>>) ELSE r

----------------------------------------------------------------------------
(* environment.rs.  An environment value carries the frames and, beside
   them, what the model observes of a run: the deepest scope stack seen
   (peak) and the values eval was called on, in order (trace). *)

EmptyFrame == [n \in {} |-> Void]

bind(env, name, value) ==
    [env EXCEPT !.frames[Len(env.frames)] = (name :> value) @@ @]

\* variant: only the innermost scope is searched
get_innermost(fs, i, name) ==
    IF i > 0 /\ name \in DOMAIN fs[i] THEN Ok(fs[i][name])
    ELSE Err(UndefinedVariable(name))

RECURSIVE get_from(_, _, _)
get_from(fs, i, name) ==
    IF i = 0 THEN Err(UndefinedVariable(name))
    ELSE IF name \in DOMAIN fs[i] THEN Ok(fs[i][name])
    ELSE get_from(fs, i - 1, name)

get(env, name) == get_from(env.frames, Len(env.frames), name)

depth(env) == Len(env.frames)

new_scope(env) ==
    [env EXCEPT !.frames = Append(@, EmptyFrame),
                !.peak = IF Len(env.frames) + 1 > @ THEN Len(env.frames) + 1 ELSE @]

restore(env, d) ==
    [env EXCEPT !.frames = IF d < Len(@) THEN SubSeq(@, 1, d) ELSE @]

----------------------------------------------------------------------------
(* eval.rs: the evaluator.  eval calls itself through eval_to_value, the
   argument lists and the procedure bodies; the model keeps those calls on
   an explicit stack.  A machine value m is one point of a run of eval:
     ctl    "loop": at the head of the 'tail_call loop, on m.value;
            "return": a call of eval returned Ok(m.value) to its caller;
     done   the outermost call returned, with m.r;
     env    the environment, shared by every call of the run;
     k      the callers that wait for a result, the innermost last;
     fuel   the steps the run may still take.
   A record of k names the place in the source that waits and holds the
   locals that are live there.  Every caller hands an error on with `?`, so
   an error ends the run where it is raised, the environment left as it is. *)

Ret(r, env) == [r |-> r, env |-> env]

SpecialForms == {"define", "and", "or", "lambda", "quote", "if"}

RECURSIVE get_captures(_, _, _)
RECURSIVE collect_parameters(_, _)
RECURSIVE collect(_, _)
RECURSIVE zip_all(_, _)
RECURSIVE eq(_, _)

\* variant: the parameters are not told apart from the free names
contains_none(parameters, s) == FALSE

\* Vec::contains on the parameter names
contains(parameters, s) == \E i \in 1..Len(parameters) : parameters[i] = s

\* variant: nothing is captured
no_captures(value, parameters, env) == <<>>

\* eval.rs 173-193
get_captures(value, parameters, env) ==
    CASE value.t = "Symbol" ->
            IF contains(parameters, value.s) THEN <<>>
            ELSE LET g == get(env, value.s)
                 IN IF g.ok THEN << <<value.s, g.v>> >> ELSE <<>>
      [] value.t = "Pair" ->
            get_captures(value.car, parameters, env)
                \o get_captures(value.cdr, parameters, env)
      [] OTHER -> <<>>

\* parameters.map(|p| p.and_then(|p| unscheme!(&p => Symbol))).collect()
collect_parameters(v, acc) ==
    LET nx == next(v)
    IN IF ~nx.some THEN Ok(acc)
       ELSE IF ~nx.item.ok THEN nx.item
       ELSE LET s == un(nx.item.v, "Symbol")
            IN IF ~s.ok THEN s
               ELSE collect_parameters(nx.rest, Append(acc, s.v))

\* body.collect::<Result<_>>()
collect(v, acc) ==
    LET nx == next(v)
    IN IF ~nx.some THEN Ok(acc)
       ELSE IF ~nx.item.ok THEN nx.item
       ELSE collect(nx.rest, Append(acc, nx.item.v))

\* body.iter().flat_map(|v| get_captures(v, &parameters, env)).collect()
RECURSIVE body_captures(_, _, _, _)
body_captures(body, i, parameters, env) ==
    IF i > Len(body) THEN <<>>
    ELSE get_captures(body[i], parameters, env)
            \o body_captures(body, i + 1, parameters, env)

\* eval.rs 155-170: the procedure made of the collected parameters and body
compound_of(ps, b, env) ==
    IF ~ps.ok THEN ps
    ELSE IF ~b.ok THEN b
    ELSE IF b.v = <<>> THEN Err(EmptyProcedure)
    ELSE Ok(Compound(ps.v, b.v, body_captures(b.v, 1, ps.v, env)))

\* eval.rs 150-171
make_lambda(parameters, body, env) ==
    compound_of(collect_parameters(parameters, <<>>), collect(body, <<>>), env)

\* eval.rs 141-144
eval_lambda(args, env) ==
    LET d == un(args, "Pair")
    IN IF ~d.ok THEN d ELSE make_lambda(d.v[1], d.v[2], env)

\* eval.rs 146-148
eval_quote(args) == un1(args, "any")

\* variant: a frame is pushed by every application, tail calls included
needs_scope_always(env, initial) == TRUE

\* variant: no frame is pushed
needs_scope_never(env, initial) == FALSE

\* eval.rs 78: a frame is pushed only when none was pushed by this call of eval
needs_scope(env, initial) == depth(env) = initial

\* eval.rs 82-84
RECURSIVE bind_parameters(_, _, _)
bind_parameters(env, parameters, args) ==
    IF parameters = <<>> \/ args = <<>> THEN env
    ELSE bind_parameters(bind(env, Head(parameters), Head(args)),
                         Tail(parameters), Tail(args))

\* variant: the captures are not bound into the frame
skip_captures(env, captures) == env

\* eval.rs 86-88
RECURSIVE bind_captures(_, _)
bind_captures(env, captures) ==
    IF captures = <<>> THEN env
    ELSE bind_captures(bind(env, Head(captures)[1], Head(captures)[2]),
                       Tail(captures))

\* eval.rs 78-88: the frame of the call, with parameters and captures bound
enter(proc, args, env, initial) ==
    bind_captures(
        bind_parameters(IF needs_scope(env, initial) THEN new_scope(env) ELSE env,
                        proc.parameters, args),
        proc.captures)

(* The stack of waiting callers *)

top(m) == m.k[Len(m.k)]
pop(m) == [m EXCEPT !.k = SubSeq(@, 1, Len(@) - 1)]
push(m, f) == [m EXCEPT !.k = Append(@, f)]

\* initial_stack_depth of the call of eval that is running
initial_stack_depth(m) == top(m).initial

\* `return Err(..)` and `?`: the error leaves every call of eval at once
fail(m, e) == [m EXCEPT !.done = TRUE, !.r = Err(e)]

\* eval.rs 104-106: the loop was left by break; the scopes this call pushed
\* are dropped and the value goes to the caller
break(m, ret) ==
    [m EXCEPT !.ctl = "return", !.value = ret,
              !.env = restore(@, initial_stack_depth(m)),
              !.k = SubSeq(@, 1, Len(@) - 1)]

\* `break f(...)?`
try_break(m, r) == IF r.ok THEN break(m, r.v) ELSE fail(m, r.e)

\* eval.rs 99-100 and 51: `continue 'tail_call` on a new value
continue(m, value) == [m EXCEPT !.ctl = "loop", !.value = value]

\* eval.rs 22-24: eval is entered
call_eval(m, value) ==
    [m EXCEPT !.ctl = "loop", !.value = value,
              !.env.trace = Append(@, value),
              !.k = Append(@, [k |-> "eval", initial |-> depth(m.env)])]

\* eval.rs 13-19: eval_to_value is entered; it waits for eval
call_eval_to_value(m, value) ==
    call_eval(push(m, [k |-> "eval_to_value", value |-> value]), value)

\* eval.rs 15-18: eval returned to eval_to_value
expect_value(m, v, value) ==
    IF v.t = "Void" THEN fail(m, ExpectedValue(value))
    ELSE [m EXCEPT !.ctl = "return", !.value = v]

\* eval.rs 92-94: the body expressions but the last are evaluated in turn,
\* then the last becomes the value of the loop (96-100)
eval_body(m, proc, i) ==
    IF i >= Len(proc.body) THEN continue(m, proc.body[Len(proc.body)])
    ELSE call_eval(push(m, [k |-> "body", proc |-> proc, i |-> i]), proc.body[i])

\* variant: the number of arguments is not checked
apply_compound_unchecked(m, proc, args) ==
    eval_body([m EXCEPT !.env = enter(proc, args, m.env, initial_stack_depth(m))],
              proc, 1)

\* eval.rs 74-100: the arguments are collected
apply_compound(m, proc, args) ==
    IF Len(args) # Len(proc.parameters)
    THEN fail(m, IncorrectArity(Len(proc.parameters), Len(args)))
    ELSE eval_body([m EXCEPT !.env = enter(proc, args, m.env, initial_stack_depth(m))],
                   proc, 1)

\* builtin.rs 44-49: the collected values become a list
list_of(m, args) == break(m, from_iter(args))

\* collect::<Result<_>>() is complete: eval.rs 72 or builtin.rs 48
collected(m, proc, args) ==
    IF proc.kind = "Compound" THEN apply_compound(m, proc, args)
    ELSE list_of(m, args)

\* |arg| arg?.eval_to_value(env) on the next item of the argument list
eval_args_item(m, proc, nx, acc) ==
    IF ~nx.some THEN collected(m, proc, acc)
    ELSE IF ~nx.item.ok THEN fail(m, nx.item.e)
    ELSE call_eval_to_value(
            push(m, [k |-> "args", proc |-> proc, rest |-> nx.rest, acc |-> acc]),
            nx.item.v)

\* variant: the first operand is passed over
eval_args_rest(m, proc, args, acc) ==
    eval_args_item(m, proc, next(IF args.t = "Pair" THEN args.cdr ELSE args), acc)

\* args.map(|arg| arg?.eval_to_value(env)).collect::<Result<_>>(), for the
\* procedure proc (eval.rs 70-72, builtin.rs 45-48)
eval_args(m, proc, args, acc) == eval_args_item(m, proc, next(args), acc)

\* eval.rs 41-52
eval_if(m, args) ==
    LET d == un3(args, "any", "any", "any")
    IN IF ~d.ok THEN fail(m, d.e)
       ELSE call_eval_to_value(
                push(m, [k |-> "if", consequent |-> d.v[2], alternative |-> d.v[3]]),
                d.v[1])

\* eval.rs 45-51: the predicate is evaluated
eval_if_branch(m, v, consequent, alternative) ==
    continue(m, IF to_bool(v) THEN consequent ELSE alternative)

\* variant: the short form returns without binding the name
define_procedure_unbound(m, name, procedure) ==
    IF ~name.ok THEN fail(m, name.e)
    ELSE IF ~procedure.ok THEN fail(m, procedure.e)
    ELSE break(m, Void)

\* eval.rs 110-113: (define (name . parameters) . body)
define_procedure(m, name, procedure) ==
    IF ~name.ok THEN fail(m, name.e)
    ELSE IF ~procedure.ok THEN fail(m, procedure.e)
    ELSE break([m EXCEPT !.env = bind(@, name.v, procedure.v)], Void)

\* eval.rs 115-116: (define name value)
define_variable(m, s) ==
    IF ~s.ok THEN fail(m, s.e)
    ELSE call_eval_to_value(push(m, [k |-> "define", lhs |-> s.v[1]]), s.v[2])

\* eval.rs 117-120: the value is evaluated
define_value(m, lhs, rhs) == break([m EXCEPT !.env = bind(@, lhs, rhs)], Void)

\* eval.rs 109-121
eval_define(m, args) ==
    LET d == un_rest(args, "Pair")
    IN IF d.ok
       THEN define_procedure(m, un(d.v[1][1], "Symbol"),
                             make_lambda(d.v[1][2], d.v[2], m.env))
       ELSE define_variable(m, un2(args, "Symbol", "any"))

\* eval.rs 124-125, 129: the next operand, or #t after the last
and_item(m, nx) ==
    IF ~nx.some THEN break(m, boolean(TRUE))
    ELSE IF ~nx.item.ok THEN fail(m, nx.item.e)
    ELSE call_eval_to_value(push(m, [k |-> "and", rest |-> nx.rest]), nx.item.v)

\* eval.rs 123-130
eval_and(m, args) == and_item(m, next(args))

\* variant: and returns the deciding operand's value, as most Schemes do
and_operand_value(m, v, rest) ==
    IF ~to_bool(v) \/ ~next(rest).some THEN break(m, v) ELSE eval_and(m, rest)

\* eval.rs 125-127: a false operand ends the loop with #f
and_operand(m, v, rest) ==
    IF ~to_bool(v) THEN break(m, boolean(FALSE)) ELSE eval_and(m, rest)

\* eval.rs 133-134, 138: the next operand, or #f after the last
or_item(m, nx) ==
    IF ~nx.some THEN break(m, boolean(FALSE))
    ELSE IF ~nx.item.ok THEN fail(m, nx.item.e)
    ELSE call_eval_to_value(push(m, [k |-> "or", rest |-> nx.rest]), nx.item.v)

\* eval.rs 132-139
eval_or(m, args) == or_item(m, next(args))

\* eval.rs 134-136: a true operand ends the loop with #t
or_operand(m, v, rest) ==
    IF to_bool(v) THEN break(m, boolean(TRUE)) ELSE eval_or(m, rest)

----------------------------------------------------------------------------
(* builtin.rs: the primitives.  unscheme!'s evaluating arms first: each
   evaluates an element of the parameters, waits, and destructures it. *)

\* ($value, $env ==> [$variant]): the only element is evaluated for f
ev1(m, f, params, variant) ==
    LET d == un1(params, "any")
    IN IF ~d.ok THEN fail(m, d.e)
       ELSE call_eval_to_value(push(m, [k |-> "ev1", f |-> f, variant |-> variant]),
                               d.v)

\* ($value, $env ==> [$v1, $v2]): the first element is evaluated for f
ev2(m, f, params, v1, v2) ==
    LET d == un_rest(params, "any")
    IN IF ~d.ok THEN fail(m, d.e)
       ELSE call_eval_to_value(
                push(m, [k |-> "ev2", f |-> f, rest |-> d.v[2], v1 |-> v1, v2 |-> v2]),
                d.v[1])

\* lib.rs 113-121: the first element destructured, the second is evaluated
ev2_second(m, f, first, rest, v2) ==
    LET d == un1(rest, "any")
    IN IF ~first.ok THEN fail(m, first.e)
       ELSE IF ~d.ok THEN fail(m, d.e)
       ELSE call_eval_to_value(
                push(m, [k |-> "ev2_second", f |-> f, first |-> first.v, v2 |-> v2]),
                d.v)

\* ($value, $env ==> [$variant, rest]): the head is evaluated for f
ev_rest(m, f, params, variant) ==
    LET d == un_rest(params, "any")
    IN IF ~d.ok THEN fail(m, d.e)
       ELSE call_eval_to_value(
                push(m, [k |-> "ev_rest", f |-> f, rest |-> d.v[2], variant |-> variant]),
                d.v[1])

\* Iterator::zip followed by Iterator::all: zip ends when either side ends
zip_all(l, r) ==
    LET nl == next(l)
    IN IF ~nl.some THEN TRUE
       ELSE LET nr == next(r)
            IN IF ~nr.some THEN TRUE
               ELSE IF (IF nl.item.ok
                        THEN nr.item.ok /\ eq(nl.item.v, nr.item.v)
                        ELSE ~nr.item.ok)
               THEN zip_all(nl.rest, nr.rest)
               ELSE FALSE

\* builtin.rs 107-121
eq(lhs, rhs) ==
    CASE lhs.t = "Symbol" /\ rhs.t = "Symbol" -> lhs.s = rhs.s
      [] lhs.t = "Number" /\ rhs.t = "Number" -> lhs.n = rhs.n
      [] lhs.t = "String" /\ rhs.t = "String" -> lhs.s = rhs.s
      [] lhs.t = "Boolean" /\ rhs.t = "Boolean" -> lhs.b = rhs.b
      [] lhs.t = "EmptyList" /\ rhs.t = "EmptyList" -> TRUE
      [] lhs.t = "Pair" /\ rhs.t = "Pair" -> zip_all(lhs, rhs)
      [] OTHER -> FALSE

\* the value a primitive of one parameter makes of it (the output of display
\* is not modelled): builtin.rs 21, 25, 37, 41, 52, 61
result1(f, x) ==
    CASE f = "display" -> Void
      [] f = "not" -> boolean(~x)
      [] f = "car" -> x[1]
      [] f = "cdr" -> x[2]
      [] f = "abs" -> number(IF x < 0 THEN -x ELSE x)
      [] f = "-" -> number(-x)

\* the primitive's parameter is evaluated and destructured
prim1(m, f, x) == IF ~x.ok THEN fail(m, x.e) ELSE break(m, result1(f, x.v))

\* the value a primitive of two parameters makes of them: builtin.rs 29, 33
result2(f, x, y) ==
    CASE f = "eq?" -> boolean(eq(x, y))
      [] f = "cons" -> pair(x, y)

\* the primitive's second parameter is evaluated and destructured
prim2(m, f, x, y) == IF ~y.ok THEN fail(m, y.e) ELSE break(m, result2(f, x, y.v))

\* sum() and product() of +, * (builtin.rs 56, 71); minuend - subtrahend of -
\* (builtin.rs 66)
fold_result(f, minuend, acc) ==
    IF f = "-" THEN number(minuend - acc) ELSE number(acc)

\* |p| unscheme!(&p?, env ==> Number) on the next parameter
fold_item(m, f, minuend, nx, acc) ==
    IF ~nx.some THEN break(m, fold_result(f, minuend, acc))
    ELSE IF ~nx.item.ok THEN fail(m, nx.item.e)
    ELSE call_eval_to_value(
            push(m, [k |-> "fold", f |-> f, minuend |-> minuend,
                     rest |-> nx.rest, acc |-> acc]),
            nx.item.v)

\* the numbers of params summed (+, and the subtrahend of -) or multiplied (*)
fold_numbers(m, f, minuend, params, acc) ==
    fold_item(m, f, minuend, next(params), acc)

\* the parameter is evaluated and destructured: it joins the total
fold_step(m, f, minuend, rest, acc, n) ==
    IF ~n.ok THEN fail(m, n.e)
    ELSE fold_numbers(m, f, minuend, rest, IF f = "*" THEN acc * n.v ELSE acc + n.v)

\* builtin.rs 63-65: the minuend is evaluated and destructured
subtrahend(m, minuend, rest) ==
    IF ~minuend.ok THEN fail(m, minuend.e)
    ELSE fold_numbers(m, "-", minuend.v, rest, 0)

\* builtin.rs 58-68
prim_sub(m, params) ==
    IF count(params) = 0 THEN fail(m, IncorrectArity(1, 0))
    ELSE IF count(params) = 1 THEN ev1(m, "-", params, "Number")
    ELSE ev_rest(m, "-", params, "Number")

\* builtin.rs 13-72: the call through the function pointer.  / and the
\* string primitives are applied by no program of this model and are left out
apply_primitive(m, f, params) ==
    CASE f = "display" -> ev1(m, f, params, "any")
      [] f = "not" -> ev1(m, f, params, "Boolean")
      [] f = "eq?" -> ev2(m, f, params, "any", "any")
      [] f = "cons" -> ev2(m, f, params, "any", "any")
      [] f = "car" -> ev1(m, f, params, "Pair")
      [] f = "cdr" -> ev1(m, f, params, "Pair")
      [] f = "list" -> eval_args(m, [kind |-> "Primitive", f |-> f], params, <<>>)
      [] f = "abs" -> ev1(m, f, params, "Number")
      [] f = "+" -> fold_numbers(m, f, 0, params, 0)
      [] f = "-" -> prim_sub(m, params)
      [] f = "*" -> fold_numbers(m, f, 0, params, 1)

----------------------------------------------------------------------------
(* eval.rs: the loop of eval and the returns to the waiting callers *)

\* eval.rs 58-66: the operator is evaluated
apply(m, procedure, args) ==
    IF procedure.t # "Procedure" THEN fail(m, ExpectedProcedure(procedure))
    ELSE IF procedure.p.kind = "Primitive"
    THEN apply_primitive(m, procedure.p.f, args)
    ELSE eval_args(m, procedure.p, args, <<>>)

\* eval.rs 57: name.eval_to_value(env)
application(m, name, args) ==
    call_eval_to_value(push(m, [k |-> "procedure", args |-> args]), name)

\* eval.rs 27-102: one pass of the 'tail_call loop up to its first call
tail_call(m, value) ==
    CASE value.t = "Symbol" -> try_break(m, get(m.env, value.s))
      [] value.t = "EmptyList" -> fail(m, EmptyApplication)
      [] value.t = "Pair" ->
            IF value.car.t = "Symbol" /\ value.car.s \in SpecialForms
            THEN CASE value.car.s = "define" -> eval_define(m, value.cdr)
                   [] value.car.s = "and" -> eval_and(m, value.cdr)
                   [] value.car.s = "or" -> eval_or(m, value.cdr)
                   [] value.car.s = "lambda" ->
                          try_break(m, eval_lambda(value.cdr, m.env))
                   [] value.car.s = "quote" -> try_break(m, eval_quote(value.cdr))
                   [] value.car.s = "if" -> eval_if(m, value.cdr)
            ELSE application(m, value.car, value.cdr)
      [] OTHER -> break(m, value)

\* the caller f, taken off the stack, receives the value v
resume(m, f, v) ==
    CASE f.k = "eval_to_value" -> expect_value(m, v, f.value)
      [] f.k = "body" -> eval_body(m, f.proc, f.i + 1)
      [] f.k = "args" -> eval_args(m, f.proc, f.rest, Append(f.acc, v))
      [] f.k = "procedure" -> apply(m, v, f.args)
      [] f.k = "if" -> eval_if_branch(m, v, f.consequent, f.alternative)
      [] f.k = "define" -> define_value(m, f.lhs, v)
      [] f.k = "and" -> and_operand(m, v, f.rest)
      [] f.k = "or" -> or_operand(m, v, f.rest)
      [] f.k = "ev1" -> prim1(m, f.f, un(v, f.variant))
      [] f.k = "ev2" -> ev2_second(m, f.f, un(v, f.v1), f.rest, f.v2)
      [] f.k = "ev2_second" -> prim2(m, f.f, f.first, un(v, f.v2))
      [] f.k = "ev_rest" -> subtrahend(m, un(v, f.variant), f.rest)
      [] f.k = "fold" -> fold_step(m, f.f, f.minuend, f.rest, f.acc, un(v, "Number"))

\* a value returned: to the caller that waits, or out of the outermost call
return(m) ==
    IF m.k = <<>> THEN [m EXCEPT !.done = TRUE, !.r = Ok(m.value)]
    ELSE resume(pop(m), top(m), m.value)

\* one step of the run
step(m) ==
    IF m.fuel = 0 THEN fail(m, OutOfFuel)
    ELSE IF m.ctl = "loop" THEN tail_call([m EXCEPT !.fuel = @ - 1], m.value)
    ELSE return([m EXCEPT !.fuel = @ - 1])

\* up to 2^n steps, ending when the outermost call has returned
RECURSIVE steps_of(_, _)
steps_of(m, n) ==
    CASE m.done -> m
      [] n = 0 -> step(m)
      [] OTHER -> steps_of(steps_of(m, n - 1), n - 1)

\* enough doublings for a run to use up its fuel
Doublings == CHOOSE n \in 0..MaxFuel : 2^n > MaxFuel /\ (n = 0 \/ 2^(n - 1) <= MaxFuel)

\* a run that has not started: nothing waits
machine(env) ==
    [ctl |-> "return", done |-> FALSE, value |-> Void, r |-> Ok(Void), env |-> env,
     k |-> <<>>,
     fuel |-> MaxFuel]

\* the result of the outermost call and the environment it leaves
outcome(m) == Ret(m.r, m.env)

\* Value::eval (eval.rs 9-11), run to its return
eval(value, env) == outcome(steps_of(call_eval(machine(env), value), Doublings))

\* Value::eval_to_value (eval.rs 13-19), run to its return
eval_to_value(value, env) ==
    outcome(steps_of(call_eval_to_value(machine(env), value), Doublings))

BuiltinNames == {"display", "not", "eq?", "cons", "car", "cdr", "list", "abs",
                 "+", "-", "*"}

\* builtin.rs 7-12
builtins == [f \in BuiltinNames |-> Primitive(f)]

\* environment.rs 43-49, Environment::default
default_frames == <<builtins>>

----------------------------------------------------------------------------
(* The programs the sessions are made of, as parse returns them. *)

S(name) == symbol(name)
N(n) == number(n)
L(elems) == from_iter(elems)
Q(datum) == L(<<S("quote"), datum>>)

\* (define x 1)
DefX == L(<<S("define"), S("x"), N(1)>>)
\* (define (f x) (define a 0) x)
DefF == L(<<S("define"), L(<<S("f"), S("x")>>), L(<<S("define"), S("a"), N(0)>>), S("x")>>)
\* (f 0)
CallF == L(<<S("f"), N(0)>>)
\* (define (g f) (eq? f 0))
DefG == L(<<S("define"), L(<<S("g"), S("f")>>), L(<<S("eq?"), S("f"), N(0)>>)>>)
\* (g 0)
CallG == L(<<S("g"), N(0)>>)
\* (define (h x) (car x))
DefH == L(<<S("define"), L(<<S("h"), S("x")>>), L(<<S("car"), S("x")>>)>>)
\* (h 5)
CallH == L(<<S("h"), N(5)>>)
\* (define (k x) (cons (f 7) x))
DefK == L(<<S("define"), L(<<S("k"), S("x")>>),
            L(<<S("cons"), L(<<S("f"), N(7)>>), S("x")>>)>>)
\* (k 3)
CallK == L(<<S("k"), N(3)>>)
\* (define (d x) (define b x))
DefD == L(<<S("define"), L(<<S("d"), S("x")>>), L(<<S("define"), S("b"), S("x")>>)>>)
\* (d 2)
CallD == L(<<S("d"), N(2)>>)

\* (car 5)
CarFive == L(<<S("car"), N(5)>>)
\* (f)
CallFNoArg == L(<<S("f")>>)
\* (cons (h 5) 1)
ConsCallH == L(<<S("cons"), CallH, N(1)>>)
\* (define (m x) (car x) x)
DefM == L(<<S("define"), L(<<S("m"), S("x")>>), L(<<S("car"), S("x")>>), S("x")>>)
\* (m 5)
CallM == L(<<S("m"), N(5)>>)
\* (define (t x) (h x))
DefT == L(<<S("define"), L(<<S("t"), S("x")>>), L(<<S("h"), S("x")>>)>>)
\* (t 5)
CallT == L(<<S("t"), N(5)>>)

\* (define (loop n) (if (eq? n 0) 0 (loop (- n 1))))
DefLoop ==
    L(<<S("define"), L(<<S("loop"), S("n")>>),
        L(<<S("if"), L(<<S("eq?"), S("n"), N(0)>>), N(0),
            L(<<S("loop"), L(<<S("-"), S("n"), N(1)>>)>>)>>)>>)
\* (loop k)
CallLoop(k) == L(<<S("loop"), N(k)>>)
\* (define (sum n) (if (eq? n 0) 0 (+ n (sum (- n 1)))))
DefSum ==
    L(<<S("define"), L(<<S("sum"), S("n")>>),
        L(<<S("if"), L(<<S("eq?"), S("n"), N(0)>>), N(0),
            L(<<S("+"), S("n"), L(<<S("sum"), L(<<S("-"), S("n"), N(1)>>)>>)>>)>>)>>)
\* (sum k)
CallSum(k) == L(<<S("sum"), N(k)>>)

\* (define (make-closure) (define local 0) (define (closure) local) closure)
DefMakeClosure ==
    L(<<S("define"), L(<<S("make-closure")>>),
        L(<<S("define"), S("local"), N(0)>>),
        L(<<S("define"), L(<<S("closure")>>), S("local")>>),
        S("closure")>>)
\* ((make-closure))
CallMakeClosure == L(<<L(<<S("make-closure")>>)>>)
\* (define c (make-closure))
DefC == L(<<S("define"), S("c"), L(<<S("make-closure")>>)>>)
\* (c)
CallC == L(<<S("c")>>)
\* (define local 9)
DefLocal == L(<<S("define"), S("local"), N(9)>>)

\* (define y k)
DefY(k) == L(<<S("define"), S("y"), N(k)>>)
\* (define (gety) y)
DefGetY == L(<<S("define"), L(<<S("gety")>>), S("y")>>)
\* (gety)
CallGetY == L(<<S("gety")>>)
\* (define (fwd) z)
DefFwd == L(<<S("define"), L(<<S("fwd")>>), S("z")>>)
\* (fwd)
CallFwd == L(<<S("fwd")>>)
\* (define z 7)
DefZ == L(<<S("define"), S("z"), N(7)>>)

\* the data eq? is applied to: chains of up to MaxLen elements, proper or not
Elems == {N(0), N(1), L(<<N(0)>>)}
Tails == {EmptyList, N(0), N(1)}
RECURSIVE Chains(_)
Chains(n) == IF n = 0 THEN Tails ELSE {pair(e, c) : e \in Elems, c \in Chains(n - 1)}
Data == UNION {Chains(n) : n \in 0..MaxLen}
\* (eq? 'l 'r)
EqForm(l, r) == L(<<S("eq?"), Q(l), Q(r)>>)

\* the operands and / or are given: truthy, falsy, unbound, without a value
Operands == {boolean(TRUE), boolean(FALSE), N(0), S("u"), L(<<S("display"), N(0)>>)}
OperandLists == UNION {[1..n -> Operands] : n \in 0..MaxOps}
\* (and ops...), (or ops...)
AndForm(ops) == L(<<S("and")>> \o ops)
OrForm(ops) == L(<<S("or")>> \o ops)

\* (define (two a b) (define w 1) a)
DefTwo == L(<<S("define"), L(<<S("two"), S("a"), S("b")>>),
              L(<<S("define"), S("w"), N(1)>>), S("a")>>)
\* (define (id x) x)
DefId == L(<<S("define"), L(<<S("id"), S("x")>>), S("x")>>)
\* (id 2)
CallId == L(<<S("id"), N(2)>>)
\* the operands a closure is given: a literal, a closure application
ArityOperands == {N(1), CallId}
ArityOperandLists == UNION {[1..n -> ArityOperands] : n \in 0..MaxOps}
\* (two ops...)
CallTwo(ops) == L(<<S("two")>> \o ops)
\* (define (t2 x) (two x))
DefT2 == L(<<S("define"), L(<<S("t2"), S("x")>>), L(<<S("two"), S("x")>>)>>)
\* (t2 1)
CallT2 == L(<<S("t2"), N(1)>>)

\* the parameter lists and bodies of the definitions compared: proper and
\* improper, with a parameter that is no symbol, with an empty body
DefineParams == {EmptyList, L(<<S("x")>>), S("x"), L(<<S("x"), N(1)>>)}
DefineBodies == {EmptyList, L(<<S("y")>>), L(<<L(<<S("p"), S("x")>>), S("y")>>),
                 pair(S("x"), N(1))}
\* (define (name params...) body...)
ShortDefine(name, params, body) ==
    pair(S("define"), pair(pair(S(name), params), body))
\* (define name (lambda (params...) body...))
LambdaDefine(name, params, body) ==
    L(<<S("define"), S(name), pair(S("lambda"), pair(params, body))>>)
\* ((lambda (x) definition p) 0): the definition in a procedure's scope
Inside(definition) ==
    L(<<L(<<S("lambda"), L(<<S("x")>>), definition, S("p")>>), N(0)>>)

\* (lambda (a b) a), (lambda (a) a), (lambda (a) (car a))
LamTwo == L(<<S("lambda"), L(<<S("a"), S("b")>>), S("a")>>)
LamId == L(<<S("lambda"), L(<<S("a")>>), S("a")>>)
LamCar == L(<<S("lambda"), L(<<S("a")>>), L(<<S("car"), S("a")>>)>>)
\* the heads of the applications: a closure, primitives, an unbound name, a
\* number
Heads == {LamTwo, S("+"), S("cons"), S("list"), S("u"), N(5)}
\* their operands: a number, an unbound name, an expression without a value,
\* a closure application that yields 2, one that fails in the closure's body
OrderOperands == {N(1), S("u"), L(<<S("display"), N(0)>>), L(<<LamId, N(2)>>),
                  L(<<LamCar, N(1)>>)}
OrderOperandLists == UNION {[1..n -> OrderOperands] : n \in 0..MaxOps}
\* (head ops...)
Apply(head, ops) == L(<<head>> \o ops)

\* (define (tc z) (fwd)): fwd called in tail position, z a parameter
DefTailCaller == L(<<S("define"), L(<<S("tc"), S("z")>>), CallFwd>>)
\* (tc 1)
CallTailCaller == L(<<S("tc"), N(1)>>)
\* (define (nc z) (+ (fwd) 0)): fwd called as an operand, z a parameter
DefOperandCaller ==
    L(<<S("define"), L(<<S("nc"), S("z")>>), L(<<S("+"), CallFwd, N(0)>>)>>)
\* (nc 1)
CallOperandCaller == L(<<S("nc"), N(1)>>)
\* (define (lc) (define z 2) (fwd)): fwd called in tail position, z defined
\* locally
DefLocalCaller ==
    L(<<S("define"), L(<<S("lc")>>), L(<<S("define"), S("z"), N(2)>>), CallFwd>>)
\* (lc)
CallLocalCaller == L(<<S("lc")>>)

Scoping == {DefX, DefF, CallF, DefG, CallG, DefH, CallH, S("x"), DefK, CallK,
            DefD, CallD}
Errors == {DefF, DefH, CallH, CarFive, CallFNoArg, EmptyList, S("u"), ConsCallH,
           DefM, CallM, DefT, CallT}
Tail_ == {DefLoop, DefSum, DefH, CallH} \cup {CallLoop(k) : k \in 0..MaxNum}
            \cup {CallSum(k) : k \in 0..MaxNum}
Closures == {DefMakeClosure, CallMakeClosure, DefC, CallC, DefLocal, S("local"),
             DefH, CallH}
Captures == {DefY(1), DefY(2), DefGetY, CallGetY, DefFwd, CallFwd, DefZ}
Equality == {EqForm(l, r) : l \in Data, r \in Data}
Logic == {AndForm(ops) : ops \in OperandLists} \cup {OrForm(ops) : ops \in OperandLists}
Arity == {DefTwo, DefId, DefT2, CallT2} \cup {CallTwo(ops) : ops \in ArityOperandLists}

Definitions ==
    {DefY(1)}
        \cup {ShortDefine("p", ps, b) : ps \in DefineParams, b \in DefineBodies}
        \cup {LambdaDefine("p", ps, b) : ps \in DefineParams, b \in DefineBodies}
        \cup {Inside(ShortDefine("p", ps, b)) : ps \in DefineParams, b \in DefineBodies}
        \cup {Inside(LambdaDefine("p", ps, b)) : ps \in DefineParams, b \in DefineBodies}

Callers == {DefFwd, DefZ, CallFwd, DefTailCaller, CallTailCaller, DefOperandCaller,
            CallOperandCaller, DefLocalCaller, CallLocalCaller}
Order == {Apply(head, ops) : head \in Heads, ops \in OrderOperandLists}

Scenarios == {"scoping", "errors", "tail", "closures", "captures", "eq", "logic",
              "arity", "define", "order", "callers"}

\* eq?, and, or and the applications of closures written in place to
\* literal data leave the environment as it was or fail: a session
\* of these applies one form; a session of definitions applies one form to
\* set the environment up and one to compare; the other sessions run up to
\* MaxForms forms
Limit(s) == IF s \in {"eq", "logic", "order"} THEN 1 ELSE IF s = "define" THEN 2 ELSE MaxForms

Forms(s) ==
    CASE s = "scoping" -> Scoping
      [] s = "errors" -> Errors
      [] s = "tail" -> Tail_
      [] s = "closures" -> Closures
      [] s = "captures" -> Captures
      [] s = "eq" -> Equality
      [] s = "logic" -> Logic
      [] s = "arity" -> Arity
      [] s = "define" -> Definitions
      [] s = "order" -> Order
      [] s = "callers" -> Callers

----------------------------------------------------------------------------
(* bin/oats.rs: the read-eval loop over one persistent environment *)

NoNames == [n \in {} |-> <<>>]

\* the name a top-level define form binds, or "" for any other form
defined_name(form) ==
    IF form.t = "Pair" /\ form.car = S("define") /\ form.cdr.t = "Pair"
    THEN IF form.cdr.car.t = "Symbol" THEN form.cdr.car.s
         ELSE IF form.cdr.car.t = "Pair" /\ form.cdr.car.car.t = "Symbol"
         THEN form.cdr.car.car.s
         ELSE ""
    ELSE ""

Init ==
    /\ scn \in Scenarios
    /\ frames = default_frames
    /\ steps = 0
    /\ last = [form |-> Void, r |-> Ok(Void), before |-> default_frames,
               peak |-> 1, trace |-> <<>>]
    /\ defFrames = NoNames

\* bin/oats.rs 18-25: the environment keeps what eval left in it, and the
\* result is reported
report(form, e) ==
    /\ ~(~e.r.ok /\ e.r.e.k = "OutOfFuel")
    /\ frames' = e.env.frames
    /\ last' = [form |-> form, r |-> e.r, before |-> frames,
                peak |-> e.env.peak, trace |-> e.env.trace]
    /\ defFrames' = IF e.r.ok /\ defined_name(form) # ""
                    THEN (defined_name(form) :> frames) @@ defFrames
                    ELSE defFrames

\* bin/oats.rs 16-26: one form of the input evaluated against the environment
run(form) ==
    /\ steps < Limit(scn)
    /\ report(form, eval(form, [frames |-> frames, peak |-> Len(frames),
                                trace |-> <<>>]))
    /\ steps' = steps + 1
    /\ UNCHANGED scn

Next == \E form \in Forms(scn) : run(form)

Spec == Init /\ [][Next]_vars

----------------------------------------------------------------------------
(* value.rs on its own: a list value is built from a sequence of elements
   and then iterated, one call of next at a time.  last holds the sequence,
   the value built, the iterator, the items it gave and how often it ended. *)

\* the elements of the sequences: atoms, a list, an improper pair
ListElems == {N(0), N(1), S("a"), EmptyList, pair(N(0), N(1))}
ElemLists == UNION {[1..n -> ListElems] : n \in 0..MaxLen}

IterInit ==
    /\ scn = "iterate"
    /\ frames = default_frames
    /\ steps = 0
    /\ last = [op |-> "none"]
    /\ defFrames = NoNames

\* value.rs 107-115: elems.into_iter().collect::<Value>(), then (&value) as an
\* iterator
collect_value(elems) ==
    /\ last.op = "none"
    /\ last' = [op |-> "from_iter", elems |-> elems, value |-> from_iter(elems),
                it |-> from_iter(elems), items |-> <<>>, ended |-> 0]
    /\ steps' = steps + 1
    /\ UNCHANGED <<scn, frames, defFrames>>

\* what one call of next leaves: the item joins those given, or the iterator
\* has ended once more
after_next(nx) ==
    IF nx.some
    THEN [last EXCEPT !.op = "next", !.it = nx.rest, !.items = Append(@, nx.item)]
    ELSE [last EXCEPT !.op = "next", !.ended = @ + 1]

\* value.rs 91-104: one call of next; an ended iterator is asked once more
iterate ==
    /\ last.op # "none"
    /\ last.ended < 2
    /\ last' = after_next(next(last.it))
    /\ steps' = steps + 1
    /\ UNCHANGED <<scn, frames, defFrames>>

IterNext == (\E elems \in ElemLists : collect_value(elems)) \/ iterate

IterSpec == IterInit /\ [][IterNext]_vars

----------------------------------------------------------------------------
(* parse.rs and the Display of value.rs.  A text is a sequence of characters,
   each a one-character string.  The texts read here hold no digit, no quote
   mark ' and no parenthesis, and display adds none to an atom that is not a
   number, so the number, quote and list alternatives of the parser fail on
   the first character of every such text and are left out. *)

Whitespace == {" ", "\t", "\n", "\r"}

starts_with(s, p) == Len(s) >= Len(p) /\ SubSeq(s, 1, Len(p)) = p
drop(s, n) == SubSeq(s, n + 1, Len(s))

\* str::trim: leading and trailing whitespace removed
RECURSIVE trim_start(_)
trim_start(s) ==
    IF s # <<>> /\ Head(s) \in Whitespace THEN trim_start(Tail(s)) ELSE s

RECURSIVE trim_end(_)
trim_end(s) ==
    IF s # <<>> /\ s[Len(s)] \in Whitespace
    THEN trim_end(SubSeq(s, 1, Len(s) - 1))
    ELSE s

trim(s) == trim_end(trim_start(s))

\* what a parser gives on a text: a value and the text left, or no match
Parsed(v, rest) == [ok |-> TRUE, v |-> v, rest |-> rest]
NoParse == [ok |-> FALSE]

\* parse.rs 30-35: #t or #true, #f or #false
boolean_parser(s) ==
    IF starts_with(s, <<"#", "t">>)
    THEN Parsed(boolean(TRUE),
                IF starts_with(drop(s, 2), <<"r", "u", "e">>)
                THEN drop(s, 5) ELSE drop(s, 2))
    ELSE IF starts_with(s, <<"#", "f">>)
    THEN Parsed(boolean(FALSE),
                IF starts_with(drop(s, 2), <<"a", "l", "s", "e">>)
                THEN drop(s, 6) ELSE drop(s, 2))
    ELSE NoParse

\* parse.rs 37-44: #\ and then newline, space or any one character
character_parser(s) ==
    IF ~starts_with(s, <<"#", "\\">>) THEN NoParse
    ELSE IF starts_with(drop(s, 2), <<"n", "e", "w", "l", "i", "n", "e">>)
    THEN Parsed(character("\n"), drop(s, 9))
    ELSE IF starts_with(drop(s, 2), <<"s", "p", "a", "c", "e">>)
    THEN Parsed(character(" "), drop(s, 7))
    ELSE IF Len(s) > 2 THEN Parsed(character(s[3]), drop(s, 3))
    ELSE NoParse

\* parse.rs 60-65: a backslash and then n, t, " or a backslash
escape(s) ==
    IF Len(s) >= 2 /\ s[1] = "\\" /\ s[2] \in {"n", "t", "\"", "\\"}
    THEN Parsed(CASE s[2] = "n" -> "\n" [] s[2] = "t" -> "\t" [] OTHER -> s[2],
                drop(s, 2))
    ELSE NoParse

\* parse.rs 67-69: choice((none_of("\\\""), escape)).repeated().collect();
\* the repetition ends before the first character neither accepts
RECURSIVE string_items(_, _)
string_items(s, acc) ==
    IF s = <<>> THEN Parsed(acc, s)
    ELSE IF Head(s) \notin {"\\", "\""}
    THEN string_items(Tail(s), Append(acc, Head(s)))
    ELSE IF escape(s).ok
    THEN string_items(escape(s).rest, Append(acc, escape(s).v))
    ELSE Parsed(acc, s)

\* the closing delimiter after the items r
closed_by(delimiter, r, value) ==
    IF r.rest # <<>> /\ Head(r.rest) = delimiter
    THEN Parsed(value, Tail(r.rest))
    ELSE NoParse

\* parse.rs 67-72
string_parser(s) ==
    IF s # <<>> /\ Head(s) = "\""
    THEN closed_by("\"", string_items(Tail(s), <<>>),
                   string(string_items(Tail(s), <<>>).v))
    ELSE NoParse

\* none_of(excluded).repeated(): the longest run of other characters
RECURSIVE none_of(_, _, _)
none_of(excluded, s, acc) ==
    IF s # <<>> /\ Head(s) \notin excluded
    THEN none_of(excluded, Tail(s), Append(acc, Head(s)))
    ELSE Parsed(acc, s)

\* parse.rs 75-79: |name| with a name of at least one character
bar_symbol(s) ==
    IF s # <<>> /\ Head(s) = "|" /\ none_of({"|", "\\"}, Tail(s), <<>>).v # <<>>
    THEN closed_by("|", none_of({"|", "\\"}, Tail(s), <<>>),
                   symbol(none_of({"|", "\\"}, Tail(s), <<>>).v))
    ELSE NoParse

SymbolStops == {" ", "\t", "\r", "\n", "|", "(", ")", "\"", ";", "'", "#"}

\* parse.rs 80: a bare name of at least one character
bare_symbol(r) == IF r.v # <<>> THEN Parsed(symbol(r.v), r.rest) ELSE NoParse

\* parse.rs 74-83
symbol_parser(s) ==
    IF bar_symbol(s).ok THEN bar_symbol(s)
    ELSE bare_symbol(none_of(SymbolStops, s, <<>>))

\* parse.rs 95: the first alternative that matches, in this order
atom(s) ==
    CASE boolean_parser(s).ok -> boolean_parser(s)
      [] character_parser(s).ok -> character_parser(s)
      [] string_parser(s).ok -> string_parser(s)
      [] OTHER -> symbol_parser(s)

\* parse.rs 28-111
parser(s) == atom(s)

\* Parser::parse: the datum must be the whole input
whole_input(r) == IF r.ok /\ r.rest = <<>> THEN Ok(r.v) ELSE Err(ParseError)

\* parse.rs 9-14
parse_one(input) == whole_input(parser(trim(input)))

\* value.rs 117-137: Display, for the values that are not numbers or pairs
display(v) ==
    CASE v.t = "Void" -> <<"#", "<", "v", "o", "i", "d", ">">>
      [] v.t = "Symbol" ->
            IF \E i \in 1..Len(v.s) : v.s[i] \in Whitespace
            THEN <<"|">> \o v.s \o <<"|">>
            ELSE v.s
      [] v.t = "String" -> <<"\"">> \o v.s \o <<"\"">>
      [] v.t = "Character" -> <<"#", "\\", v.c>>
      [] v.t = "Boolean" -> IF v.b THEN <<"#", "t">> ELSE <<"#", "f">>
      [] v.t = "EmptyList" -> <<"(", ")">>
      [] v.t = "Procedure" ->
            <<"#", "<", "p", "r", "o", "c", "e", "d", "u", "r", "e", ">">>

(* The literal atoms read: booleans, characters, strings of up to MaxLen
   pieces that are plain characters or escapes, bare symbols, and symbols
   between bars that contain whitespace. *)

RECURSIVE concat(_)
concat(ps) == IF ps = <<>> THEN <<>> ELSE Head(ps) \o concat(Tail(ps))

UpTo(n, set) == UNION {[1..k -> set] : k \in 0..n}

Booleans == {<<"#", "t">>, <<"#", "f">>, <<"#", "t", "r", "u", "e">>,
             <<"#", "f", "a", "l", "s", "e">>}
CharacterNames == {<<"a">>, <<"n">>, <<"s">>, <<"\"">>, <<"\\">>, <<"#">>,
                   <<"s", "p", "a", "c", "e">>,
                   <<"n", "e", "w", "l", "i", "n", "e">>}
Characters == {<<"#", "\\">> \o c : c \in CharacterNames}
StringPieces == {<<"a">>, <<" ">>, <<"\\", "n">>, <<"\\", "t">>, <<"\\", "\"">>,
                 <<"\\", "\\">>}
Strings == {<<"\"">> \o concat(ps) \o <<"\"">> : ps \in UpTo(MaxLen, StringPieces)}
BareSymbols == UpTo(MaxLen, {"a", "b", "-"}) \ {<<>>}
BarSymbols == {<<"|">> \o cs \o <<"|">> :
                 cs \in {c \in UpTo(MaxLen, {"a", " ", "\t"}) :
                           \E i \in 1..Len(c) : c[i] \in Whitespace}}
Texts == Booleans \cup Characters \cup Strings \cup BareSymbols \cup BarSymbols

TextInit ==
    /\ scn = "text"
    /\ frames = default_frames
    /\ steps = 0
    /\ last = [op |-> "none"]
    /\ defFrames = NoNames

\* parse_one(text)
read(text) ==
    /\ last.op = "none"
    /\ last' = [op |-> "read", text |-> text, first |-> parse_one(text)]
    /\ steps' = steps + 1
    /\ UNCHANGED <<scn, frames, defFrames>>

\* value.to_string() on the value read
render ==
    /\ last.op = "read"
    /\ last.first.ok
    /\ last' = [op |-> "render", text |-> last.text, first |-> last.first,
                shown |-> display(last.first.v)]
    /\ steps' = steps + 1
    /\ UNCHANGED <<scn, frames, defFrames>>

\* parse_one on the rendered text
read_again ==
    /\ last.op = "render"
    /\ last' = [op |-> "read_again", text |-> last.text, first |-> last.first,
                shown |-> last.shown, second |-> parse_one(last.shown)]
    /\ steps' = steps + 1
    /\ UNCHANGED <<scn, frames, defFrames>>

TextNext == (\E text \in Texts : read(text)) \/ render \/ read_again

TextSpec == TextInit /\ [][TextNext]_vars

----------------------------------------------------------------------------
(* bin/oats.rs, run on one input: the input is parsed, and its forms are
   evaluated one after another against the caller's environment.  last holds
   what parse gave and one log entry for every form evaluated; steps counts
   the forms evaluated. *)

BatchForms == {DefX, DefH, CallH, S("x"), S("u")}
Batches == UNION {[1..n -> BatchForms] : n \in 0..MaxForms}
\* what parse gives: the forms of the input, or an error
Inputs == {Ok(b) : b \in Batches} \cup {Err(ParseError)}

BatchInit ==
    /\ scn = "batch"
    /\ frames = default_frames
    /\ steps = 0
    /\ last \in {[input |-> i, log |-> <<>>, reported |-> FALSE] : i \in Inputs}
    /\ defFrames = NoNames

\* oats.rs 7-13: an input that does not parse is reported, nothing is evaluated
parse_failed ==
    /\ ~last.input.ok
    /\ ~last.reported
    /\ last' = [last EXCEPT !.reported = TRUE]
    /\ UNCHANGED <<scn, frames, steps, defFrames>>

\* oats.rs 16-25: the result is printed; the environment keeps what eval left
logged(form, e) ==
    /\ frames' = e.env.frames
    /\ last' = [last EXCEPT !.log = Append(@, [form |-> form, r |-> e.r,
                                               before |-> frames,
                                               after |-> e.env.frames])]

\* oats.rs 15-26: one turn of the loop over the forms
evaluate_next ==
    /\ last.input.ok
    /\ steps < Len(last.input.v)
    /\ logged(last.input.v[steps + 1],
              eval(last.input.v[steps + 1],
                   [frames |-> frames, peak |-> Len(frames), trace |-> <<>>]))
    /\ steps' = steps + 1
    /\ UNCHANGED <<scn, defFrames>>

BatchNext == parse_failed \/ evaluate_next

BatchSpec == BatchInit /\ [][BatchNext]_vars

\* oats.rs 15: the loop moves on to the next form.  With [][BatchNext]_vars a
\* step that changes steps this way is a step of evaluate_next, and eval
\* returns for every form, so this is enabled exactly when evaluate_next is.
next_turn == last.input.ok /\ steps < Len(last.input.v) /\ steps' = steps + 1

\* run is sequential code: it reports a parse error when there is one, and
\* while a form is left the loop takes its next turn
BatchLive == BatchSpec /\ WF_vars(parse_failed) /\ WF_steps(next_turn)

----------------------------------------------------------------------------
(* What the claims are stated with: lookup by scope position, independent
   of the walk get makes. *)

Bound(fs, name) == \E i \in 1..Len(fs) : name \in DOMAIN fs[i]

Resolve(fs, name) ==
    LET i == CHOOSE j \in 1..Len(fs) :
                 /\ name \in DOMAIN fs[j]
                 /\ \A k \in (j + 1)..Len(fs) : name \notin DOMAIN fs[k]
    IN fs[i][name]

BoundNames(fs) == UNION {DOMAIN fs[i] : i \in 1..Len(fs)}

Ran == steps > 0

\* the environment a form was evaluated in, as eval receives it
EnvBefore == [frames |-> last.before, peak |-> Len(last.before), trace |-> <<>>]

----------------------------------------------------------------------------
\* C1: when a top-level call of eval returns, with a value or with an error,
\* the scope-stack depth equals the depth it had when the call started.
C1_DepthRestored == Ran => Len(frames) = Len(last.before)

\* C2: after a top-level form failed, every name bound before the form still
\* resolves, and to the value it had before the form.
C2_BindingsSurviveError ==
    (Ran /\ ~last.r.ok) =>
        \A n \in BoundNames(last.before) :
            Bound(frames, n) /\ Resolve(frames, n) = Resolve(last.before, n)

\* C3: a self-tail-recursive closure whose test and arguments only apply
\* primitives, called at depth d, never takes the scope stack beyond d + 1,
\* whatever the number of iterations, and leaves it at d.
C3_TailCallDepth ==
    \A k \in 0..MaxNum :
        (Ran /\ last.form = CallLoop(k) /\ Bound(last.before, "loop")) =>
            /\ last.r = Ok(N(0))
            /\ last.peak <= Len(last.before) + 1
            /\ Len(frames) = Len(last.before)

C3_Witness ==
    /\ Ran /\ last.form = CallLoop(MaxNum) /\ last.r = Ok(N(0))
    /\ Len(last.before) > 1
    /\ last.peak = Len(last.before) + 1
    /\ Len(frames) = Len(last.before)

\* a top-level form that applies a closure bound to a name
AppliesClosure(form, fs) ==
    /\ form.t = "Pair" /\ form.car.t = "Symbol"
    /\ form.car.s \notin SpecialForms
    /\ Bound(fs, form.car.s)
    /\ Resolve(fs, form.car.s).t = "Procedure"
    /\ Resolve(fs, form.car.s).p.kind = "Compound"

\* C4: after a closure application evaluated successfully, at top level or as
\* an operand inside another procedure's body, every scope and binding that
\* existed before is unchanged: parameters and names defined in the body (in
\* any position, the last included) are not visible, the caller's parameters
\* keep their values; after (f 0), f is bound and x and a are as before.
C4_ApplicationLeavesScopes ==
    (Ran /\ last.r.ok /\ AppliesClosure(last.form, last.before)) =>
        /\ frames = last.before
        /\ last.form = CallK => last.r.v = pair(N(7), N(3))
        /\ last.form = CallD => last.r.v = Void /\ ~Bound(frames, "b")
        /\ last.form = CallF =>
              /\ Bound(frames, "f") /\ ~Bound(frames, "a")
              /\ Bound(frames, "x") <=> Bound(last.before, "x")

C4_Witness ==
    /\ Ran /\ last.form = CallK /\ last.r = Ok(pair(N(7), N(3)))
    /\ frames = last.before
    /\ ~Bound(frames, "x") /\ ~Bound(frames, "a")

\* C5: a closure created inside a procedure call that references a name
\* defined locally in that call resolves it to the value it had at closure
\* creation when applied after that call returned and its frame is gone;
\* ((make-closure)) yields 0.
C5_ClosureSurvivesFrame ==
    /\ (Ran /\ last.form = CallMakeClosure /\ Bound(last.before, "make-closure")) =>
            last.r = Ok(N(0)) /\ frames = last.before
    /\ (Ran /\ last.form = CallC /\ Bound(last.before, "c")) =>
            last.r = Ok(N(0)) /\ frames = last.before

C5_Witness ==
    /\ Ran /\ last.form = CallC /\ last.r = Ok(N(0))
    /\ ~Bound(last.before, "local") /\ ~Bound(frames, "local")

\* C6: a name captured by a closure and rebound in the defining scope after
\* the closure was constructed is still seen, by every later call, with the
\* value it had at construction.
C6_CapturesFixed ==
    (/\ Ran /\ last.form = CallGetY
     /\ "gety" \in DOMAIN defFrames
     /\ Bound(defFrames["gety"], "y")) =>
        last.r = Ok(Resolve(defFrames["gety"], "y"))

C6_Witness ==
    /\ Ran /\ last.form = CallGetY
    /\ "gety" \in DOMAIN defFrames
    /\ Bound(defFrames["gety"], "y")
    /\ Resolve(defFrames["gety"], "y") = N(1)
    /\ Resolve(last.before, "y") = N(2)
    /\ last.r = Ok(N(1))

\* fwd was defined while z did not resolve, and is now called
FwdCalled ==
    /\ Ran /\ last.form = CallFwd
    /\ "fwd" \in DOMAIN defFrames
    /\ ~Bound(defFrames["fwd"], "z")

FwdOmitsZ ==
    LET c == Resolve(last.before, "fwd").p.captures
    IN \A i \in 1..Len(c) : c[i][1] # "z"

\* C7 as stated: a body symbol that is no parameter and did not resolve at
\* definition time is omitted from the captures, and referencing it when the
\* closure is later called fails with undefined-variable.
C7_ForwardReferenceFails ==
    FwdCalled => FwdOmitsZ /\ last.r = Err(UndefinedVariable("z"))

\* C7 amended: such a symbol is omitted from the captures, and referencing it
\* when the closure is later called resolves it in the environment of the
\* call: it yields the value bound there, and fails with undefined-variable
\* only when the name is unbound there too.
C7_ForwardReferenceResolvedAtCall ==
    FwdCalled =>
        /\ FwdOmitsZ
        /\ last.r = IF Bound(last.before, "z")
                    THEN Ok(Resolve(last.before, "z"))
                    ELSE Err(UndefinedVariable("z"))

C7_Witness == FwdCalled /\ Bound(last.before, "z") /\ last.r = Ok(N(7))

\* C8: inside a closure call a parameter name resolves to the argument passed
\* for it, even when the name is bound in an outer scope or would otherwise
\* be captured; with f a global procedure, (g 0) yields #t.
C8_ParameterShadows ==
    /\ (Ran /\ last.form = CallG /\ AppliesClosure(CallG, last.before)) =>
            last.r = Ok(boolean(TRUE))
    /\ (Ran /\ last.form = CallF /\ AppliesClosure(CallF, last.before)) =>
            last.r = Ok(N(0))

C8_Witness ==
    /\ Ran /\ last.form = CallG /\ last.r = Ok(boolean(TRUE))
    /\ "g" \in DOMAIN defFrames
    /\ AppliesClosure(CallF, defFrames["g"])
    /\ AppliesClosure(CallF, last.before)

\* the two data of an (eq? 'l 'r) form
EqLhs(form) == form.cdr.car.cdr.car
EqRhs(form) == form.cdr.cdr.car.cdr.car

\* C9: for two non-procedure values eq? is #t exactly when they have the same
\* variant and the same payload, through the head and the tail of every pair;
\* lists of different lengths, and chains that differ only in their final
\* tail, are not equal.
C9_EqStructural ==
    (Ran /\ scn = "eq") =>
        last.r = Ok(boolean(EqLhs(last.form) = EqRhs(last.form)))

\* the operands of an (and ...) or (or ...) form, in order
RECURSIVE OperandsOf(_)
OperandsOf(v) == IF v.t = "Pair" THEN <<v.car>> \o OperandsOf(v.cdr) ELSE <<>>

\* what evaluating one operand alone, demanding a value, gives and visits
Outcome(op) == eval_to_value(op, EnvBefore).r
Visits(op) == eval_to_value(op, EnvBefore).env.trace

RECURSIVE VisitsOfFirst(_, _)
VisitsOfFirst(ops, n) ==
    IF n = 0 THEN <<>> ELSE VisitsOfFirst(ops, n - 1) \o Visits(ops[n])

\* the first operand that decides: one that fails or has the deciding truth
Deciding(ops, truth) ==
    {i \in 1..Len(ops) :
        ~Outcome(ops[i]).ok \/ to_bool(Outcome(ops[i]).v) = truth}

First(I) == CHOOSE i \in I : \A j \in I : i <= j

Decided(ops, truth) ==
    IF Deciding(ops, truth) = {}
    THEN [r |-> Ok(boolean(~truth)), n |-> Len(ops)]
    ELSE LET i == First(Deciding(ops, truth))
         IN [r |-> IF Outcome(ops[i]).ok THEN Ok(boolean(truth)) ELSE Outcome(ops[i]),
             n |-> i]

\* C10: and / or evaluate their operands left to right, each demanding a
\* value, and return only booleans: and is #f at the first falsy operand and
\* #t otherwise, or is #t at the first truthy operand and #f otherwise; no
\* operand after the deciding one is evaluated; (and) is #t and (or) is #f.
C10_AndOrShortCircuit ==
    (Ran /\ scn = "logic") =>
        LET ops == OperandsOf(last.form.cdr)
            d == Decided(ops, last.form.car.s = "or")
        IN /\ last.r = d.r
           /\ last.r.ok => last.r.v \in {boolean(TRUE), boolean(FALSE)}
           /\ last.trace = <<last.form>> \o VisitsOfFirst(ops, d.n)

C10_Witness ==
    /\ Ran /\ last.form = AndForm(<<N(0), boolean(FALSE), S("u")>>)
    /\ last.r = Ok(boolean(FALSE))
    /\ last.trace = <<last.form, N(0), boolean(FALSE)>>

\* a top-level application of a closure to a number of operands that is not
\* the number of its parameters, every operand evaluating successfully
ArityMismatch ==
    /\ Ran /\ AppliesClosure(last.form, last.before)
    /\ Len(OperandsOf(last.form.cdr))
          # Len(Resolve(last.before, last.form.car.s).p.parameters)
    /\ \A i \in 1..Len(OperandsOf(last.form.cdr)) :
          Outcome(OperandsOf(last.form.cdr)[i]).ok

\* C11: applying a closure with n parameters to m operands, m different from
\* n, all of which evaluate successfully, fails with incorrect-arity(n, m),
\* binds no parameter and evaluates no body expression: eval is called on the
\* form, its head and what the operands evaluate, and on nothing else; inside
\* another procedure's body too, a two-parameter closure called with one
\* argument yields incorrect-arity(2, 1).
C11_ArityMismatch ==
    /\ ArityMismatch =>
          /\ last.r = Err(IncorrectArity(
                            Len(Resolve(last.before, last.form.car.s).p.parameters),
                            Len(OperandsOf(last.form.cdr))))
          /\ frames = last.before
          /\ last.trace = <<last.form, last.form.car>>
                            \o VisitsOfFirst(OperandsOf(last.form.cdr),
                                             Len(OperandsOf(last.form.cdr)))
    /\ (/\ Ran /\ last.form = CallT2 /\ Bound(last.before, "t2")
        /\ Bound(last.before, "two")) =>
          /\ last.r = Err(IncorrectArity(2, 1))
          /\ ~Bound(frames, "a") /\ ~Bound(frames, "w")
          /\ last.trace = <<CallT2, S("t2"), N(1), S("two"), S("x")>>

C11_Witness ==
    /\ ArityMismatch /\ last.form = CallTwo(<<CallId>>)
    /\ last.r = Err(IncorrectArity(2, 1))
    /\ last.trace = <<last.form, S("two"), CallId, S("id"), N(2)>>

\* C12: building a list value from any finite ordered sequence of elements,
\* the empty sequence included, and then iterating that value yields exactly
\* the original elements in the original order, with no error element, and
\* then ends: the items given so far are the first elements, each as Ok, the
\* iterator ends only after all of them, and once they are all given the
\* next call ends it.
C12_ListRoundTrip ==
    (scn = "iterate" /\ last.op # "none") =>
        /\ Len(last.items) <= Len(last.elems)
        /\ \A i \in 1..Len(last.items) : last.items[i] = Ok(last.elems[i])
        /\ last.ended > 0 => Len(last.items) = Len(last.elems)
        /\ Len(last.items) = Len(last.elems) => ~next(last.it).some

C12_Witness ==
    /\ scn = "iterate" /\ last.op = "next" /\ last.ended = 2
    /\ last.elems = <<pair(N(0), N(1)), EmptyList>>
    /\ last.items = <<Ok(pair(N(0), N(1))), Ok(EmptyList)>>

----------------------------------------------------------------------------
\* C13: for every literal atom, reading its text with parse_one, rendering
\* the value with display and reading the rendered text again with parse_one
\* succeeds and gives a value equal to the first one.
C13_ReadDisplayRoundTrip ==
    (scn = "text" /\ last.op = "read_again") =>
        /\ last.second.ok
        /\ last.second = last.first

----------------------------------------------------------------------------
\* the names of a parameter list
NamesOf(ps) == [i \in 1..Len(OperandsOf(ps)) |-> OperandsOf(ps)[i].s]

\* two evaluations end alike: the same result and the same environment
SameOutcome(a, b) == a.r = b.r /\ a.env.frames = b.env.frames

\* the scopes below the innermost one, and the innermost one's other names
Elsewhere(fs, name) ==
    [i \in 1..Len(fs) |->
        IF i < Len(fs) THEN fs[i]
        ELSE [n \in DOMAIN fs[i] \ {name} |-> fs[i][n]]]

\* C14: (define (name params...) body...) and (define name (lambda
\* (params...) body...)) evaluated in equal environments end alike: both
\* fail with the same error and bind nothing, the environment staying as it
\* was, or both return Void and bind name in the innermost scope, and there
\* only, to a procedure with the parameters, the body and the same captures;
\* so too when the two forms stand in a procedure's body.
C14_DefineForms ==
    \A ps \in DefineParams, b \in DefineBodies :
        /\ (Ran /\ last.form \in {ShortDefine("p", ps, b), LambdaDefine("p", ps, b)}) =>
              /\ SameOutcome(eval(ShortDefine("p", ps, b), EnvBefore),
                             eval(LambdaDefine("p", ps, b), EnvBefore))
              /\ last.r.ok =>
                    /\ last.r = Ok(Void)
                    /\ Elsewhere(frames, "p") = Elsewhere(last.before, "p")
                    /\ "p" \in DOMAIN frames[Len(frames)]
                    /\ frames[Len(frames)]["p"].t = "Procedure"
                    /\ frames[Len(frames)]["p"].p.kind = "Compound"
                    /\ frames[Len(frames)]["p"].p.parameters = NamesOf(ps)
                    /\ frames[Len(frames)]["p"].p.body = OperandsOf(b)
              /\ ~last.r.ok => frames = last.before
        /\ (Ran /\ last.form \in {Inside(ShortDefine("p", ps, b)),
                                  Inside(LambdaDefine("p", ps, b))}) =>
              SameOutcome(eval(Inside(ShortDefine("p", ps, b)), EnvBefore),
                          eval(Inside(LambdaDefine("p", ps, b)), EnvBefore))

\* (define (p x) (p x) y) after (define y 1): y is captured, p is not
C14_Witness ==
    /\ Ran /\ scn = "define"
    /\ last.form = ShortDefine("p", L(<<S("x")>>), L(<<L(<<S("p"), S("x")>>), S("y")>>))
    /\ last.r = Ok(Void)
    /\ Bound(last.before, "y") /\ ~Bound(last.before, "p")
    /\ Resolve(frames, "p").p.captures = << <<"y", N(1)>> >>
    /\ eval(LambdaDefine("p", L(<<S("x")>>), L(<<L(<<S("p"), S("x")>>), S("y")>>)),
            EnvBefore).env.frames = frames

----------------------------------------------------------------------------
\* run has returned: every form was evaluated, or the parse error was reported
BatchDone == IF last.input.ok THEN steps = Len(last.input.v) ELSE last.reported

\* the forms evaluated so far are the first forms of the input, in order, each
\* against the environment the one before it left
BatchInOrder ==
    last.input.ok =>
        /\ Len(last.log) = steps
        /\ \A j \in 1..Len(last.log) :
              /\ last.log[j].form = last.input.v[j]
              /\ last.log[j].before = IF j = 1 THEN default_frames
                                      ELSE last.log[j - 1].after
        /\ frames = IF last.log = <<>> THEN default_frames
                    ELSE last.log[Len(last.log)].after

Latest(I) == CHOOSE i \in I : \A j \in I : j <= i

\* the forms before the j-th that defined name successfully
DefinedBefore(j, name) ==
    {i \in 1..(j - 1) : last.log[i].r.ok /\ defined_name(last.log[i].form) = name}

\* a name defined by an earlier successful form resolves, for a later form, to
\* the value the latest such form gave it
EarlierBindingsVisible ==
    \A j \in 1..Len(last.log), name \in {"x", "h"} :
        DefinedBefore(j, name) # {} =>
            get([frames |-> last.log[j].before], name)
                = Ok(Resolve(last.log[Latest(DefinedBefore(j, name))].after, name))

\* C15: when the forms of an input are run against one persistent environment
\* a failing form does not stop the run: every form is evaluated in the end,
\* in order, each against the environment the one before it left, and a
\* binding made by an earlier successful form is what a later form sees.
C15_BatchRunsOn == []BatchInOrder /\ []EarlierBindingsVisible /\ <>BatchDone

----------------------------------------------------------------------------
\* an application: a list whose head is no special form
Application(form) ==
    form.t = "Pair" /\ ~(form.car.t = "Symbol" /\ form.car.s \in SpecialForms)

\* its sub-expressions: the head, then the operands
Subs(form) == <<form.car>> \o OperandsOf(form.cdr)

IsPrefix(p, s) == Len(p) <= Len(s) /\ SubSeq(s, 1, Len(p)) = p

\* what eval visits up to the end of the k-th sub-expression's evaluation if
\* the sub-expressions are evaluated in order
Through(form, k) == <<form>> \o VisitsOfFirst(Subs(form), k)

\* how many sub-expressions were evaluated, in order from the head
Reached(form) ==
    CHOOSE k \in 0..Len(Subs(form)) :
        /\ IsPrefix(Through(form, k), last.trace)
        /\ k < Len(Subs(form)) => ~IsPrefix(Through(form, k + 1), last.trace)

\* the sub-expressions whose evaluation fails
FailingSubs(form) ==
    {i \in 1..Len(Subs(form)) : ~Outcome(Subs(form)[i]).ok}

\* the head is a procedure that takes any number of operands of any kind
\* without looking at them before all are evaluated: a closure, or list
TakesAll(form) ==
    /\ Outcome(form.car).ok
    /\ Outcome(form.car).v.t = "Procedure"
    /\ \/ Outcome(form.car).v.p.kind = "Compound"
       \/ Outcome(form.car).v = Primitive("list")

\* C16: in an application the head is evaluated first and the operands then
\* left to right: the sub-expressions evaluated are the first so many in
\* order, and nothing else is evaluated before the last of them; when the
\* evaluation of one fails it is the last one evaluated, no later operand is
\* evaluated, and the application returns that sub-expression's error
\* unchanged; a closure and list get as far as the first sub-expression that
\* fails.
C16_OperandOrder ==
    (Ran /\ Application(last.form)) =>
        /\ Len(last.trace) > Len(Through(last.form, Reached(last.form))) =>
                Reached(last.form) = Len(Subs(last.form))
        /\ \A i \in 1..Reached(last.form) :
                ~Outcome(Subs(last.form)[i]).ok =>
                    /\ i = Reached(last.form)
                    /\ last.r = Outcome(Subs(last.form)[i])
                    /\ last.trace = Through(last.form, i)
        /\ (TakesAll(last.form) /\ FailingSubs(last.form) # {}) =>
                Reached(last.form) = First(FailingSubs(last.form))

\* ((lambda (a b) a) 1 u ((lambda (a) (car a)) 1)): u fails, the third
\* operand is not evaluated
C16_Witness ==
    /\ Ran /\ scn = "order"
    /\ last.form = Apply(LamTwo, <<N(1), S("u"), L(<<LamCar, N(1)>>)>>)
    /\ Reached(last.form) = 3
    /\ last.r = Err(UndefinedVariable("u"))
    /\ last.trace = <<last.form, LamTwo, N(1), S("u")>>

----------------------------------------------------------------------------
\* the procedure bound to caller calls the fwd that a top-level (fwd) calls:
\* it captured that procedure, or captured none and looks fwd up
CallsFwd(fs, caller) ==
    /\ Bound(fs, caller) /\ Bound(fs, "fwd")
    /\ Resolve(fs, caller).t = "Procedure"
    /\ \A i \in 1..Len(Resolve(fs, caller).p.captures) :
          Resolve(fs, caller).p.captures[i][1] = "fwd" =>
              Resolve(fs, caller).p.captures[i][2] = Resolve(fs, "fwd")

\* the name of the procedure a form applies
CallerOf(form) == form.car.s

\* C17: what z, no parameter of fwd, resolves to in fwd's body during a call
\* does not depend on the caller: when (fwd) at top level yields a value,
\* calling fwd in tail position or as an operand from a procedure that has
\* a parameter z or a local define of z yields that same value.
C17_CallerIndependent ==
    (/\ Ran
     /\ last.form \in {CallTailCaller, CallOperandCaller, CallLocalCaller}
     /\ CallsFwd(last.before, CallerOf(last.form))
     /\ eval(CallFwd, EnvBefore).r.ok) =>
        last.r = eval(CallFwd, EnvBefore).r

====
